---- MODULE Spec2Model ----
(***************************************************************************)
(* Vehicle dynamics (TruckPhysics) and terrain queries of vibe-driving.    *)
(*                                                                         *)
(* Numbers are fixed point.  Lengths are in millimetres, velocities in     *)
(* mm/s, accelerations in mm/s^2, time steps in milliseconds, angles in    *)
(* microradians, angular velocity in microradians/s, and the dimensionless *)
(* controls (throttle, brake, steering, bounce in metres) in thousandths.  *)
(* Every product is arranged to stay inside 32-bit integers.               *)
(***************************************************************************)
EXTENDS Integers, Sequences, FiniteSets, TLC

\* ------------------------------------------------------------------------
\* Arithmetic helpers (JavaScript Math.*)
\* ------------------------------------------------------------------------

Abs(a) == IF a < 0 THEN -a ELSE a

Sign(a) == IF a > 0 THEN 1 ELSE IF a < 0 THEN -1 ELSE 0

Min(a, b) == IF a < b THEN a ELSE b

Max(a, b) == IF a > b THEN a ELSE b

\* Division rounding toward zero: the fixed-point image of a real quotient.
TDiv(a, b) == IF a >= 0 THEN a \div b ELSE -((-a) \div b)

\* Division rounding away from zero.
RDiv(a, b) == IF a >= 0 THEN (a + b - 1) \div b ELSE -(((-a) + b - 1) \div b)

RECURSIVE SqrtSearch(_, _, _)
SqrtSearch(n, lo, hi) ==
    IF lo >= hi THEN lo
    ELSE LET mid == (lo + hi + 1) \div 2
         IN IF mid * mid <= n THEN SqrtSearch(n, mid, hi)
                              ELSE SqrtSearch(n, lo, mid - 1)

\* Math.sqrt on naturals below 2^31, rounded down.
Sqrt(n) == SqrtSearch(n, 0, 46340)

\* One unit of the fixed-point scale (1.0).
One == 1000

\* Pi in microradians.
Pi == 3141593

HalfPi == 1570796

TwoPi == 6283185

\* Sine of an angle of at most a quarter turn, angle in milliradians,
\* by its Taylor polynomial; result in thousandths.
SinPoly(m) ==
    LET m2 == TDiv(m * m, One)
        t3 == TDiv(TDiv(m2 * m, One), 6)
        t5 == TDiv(TDiv(t3 * m2, One), 20)
        t7 == TDiv(TDiv(t5 * m2, One), 42)
    IN m - t3 + t5 - t7

\* Math.sin, angle in microradians, result in thousandths.
Sin(a) ==
    LET r == a % TwoPi
        s == IF r > Pi THEN r - TwoPi ELSE r
        q == IF s > HalfPi THEN Pi - s
             ELSE IF s < -HalfPi THEN -Pi - s ELSE s
    IN IF q = HalfPi THEN One
       ELSE IF q = -HalfPi THEN -One
       ELSE Max(-One, Min(One, SinPoly(TDiv(q, One))))

\* Math.cos, angle in microradians, result in thousandths.
Cos(a) == Sin(a + HalfPi)

RECURSIVE PowSearch(_, _, _)
PowSearch(x2, lo, hi) ==
    IF lo >= hi THEN lo
    ELSE LET mid == (lo + hi + 1) \div 2
             m3  == (mid * mid * mid) \div One
             m4  == (m3 * mid) \div One
             m5  == (m4 * mid) \div One
         IN IF m5 <= x2 THEN PowSearch(x2, mid, hi)
                        ELSE PowSearch(x2, lo, mid - 1)

\* Math.pow(x, 0.4) for x in [0, 1], in thousandths: the y with y^5 = x^2
\* (both sides compared in millionths).
Pow04(x) == IF x <= 0 THEN 0 ELSE PowSearch(x * x, 0, One)

\* ------------------------------------------------------------------------
\* THREE.Vector3
\* ------------------------------------------------------------------------

Vec(a, b, c) == [x |-> a, y |-> b, z |-> c]

VAdd(u, v) == Vec(u.x + v.x, u.y + v.y, u.z + v.z)

VSub(u, v) == Vec(u.x - v.x, u.y - v.y, u.z - v.z)

\* multiplyScalar by the ratio n / d
VScale(u, n, d) == Vec(TDiv(u.x * n, d), TDiv(u.y * n, d), TDiv(u.z * n, d))

\* Largest component magnitude.
VMax(u) == Max(Abs(u.x), Max(Abs(u.y), Abs(u.z)))

\* Vector3.length(): exact below 26 m/s, to 4 mm/s above (keeps the squares
\* inside 32 bits).
VLen(u) ==
    IF VMax(u) <= 26000
    THEN Sqrt(u.x * u.x + u.y * u.y + u.z * u.z)
    ELSE LET a == TDiv(u.x, 4)
             b == TDiv(u.y, 4)
             c == TDiv(u.z, 4)
         IN 4 * Sqrt(a * a + b * b + c * c)

\* Vector3.dot() with a direction vector d given in thousandths.
VDot(u, d) == TDiv(u.x * d.x + u.y * d.y + u.z * d.z, One)

\* ------------------------------------------------------------------------
\* Terrain (terrain.js)
\* ------------------------------------------------------------------------

\* Terrain.groundSize, in mm.
groundSize == 2000000

groundSegments == 200

\* The ground surfaces the model is run on: the height cache before build()
\* (null), an all-zero cache, and a cache with a rise followed by a drop
\* along +z.
Terrains == {"unbuilt", "level", "steps"}

\* Height caches filled by applyHeightVariation, named by the noise that
\* build() met.
Noises == {"plateau", "ramp", "ridge"}

\* The sum of the three noise octaves at a vertex, in mm.
Noise(n, x, z) ==
    IF n = "plateau" THEN 5000
    ELSE IF n = "ramp" THEN 3000 + x \div 100
    ELSE (z \div 200) - (x \div 500)

\* flattenFactor = 1 - Math.max(0, 1 - distanceFromCenter / 30), in
\* thousandths; the distance is taken in decimetres.
FlattenFactor(x, z) ==
    One - Max(0, One - TDiv(Sqrt((Abs(x) \div 100) * (Abs(x) \div 100)
                                  + (Abs(z) \div 100) * (Abs(z) \div 100)) * One,
                            300))

\* World coordinate of grid vertex v of the plane geometry, v in
\* 0..groundSegments.
VertexCoord(v) == v * (groundSize \div groundSegments) - groundSize \div 2

\* The height applyHeightVariation computes for vertex (vx, vz), in mm.
VertexHeight(n, vx, vz) ==
    TDiv(Noise(n, VertexCoord(vx), VertexCoord(vz))
             * FlattenFactor(VertexCoord(vx), VertexCoord(vz)),
         One)

\* Grid index of a world coordinate: Math.floor((x + size/2) / size * width).
GridIndex(c) == ((c + groundSize \div 2) * (groundSegments + 1)) \div groundSize

\* The vertices whose height the loop stores at index i of one axis. The
\* index of vertex v is v or v + 1, so only i - 1 and i are looked at.
VerticesAt(i) ==
    { v \in {i - 1, i} \cap (0..groundSegments) :
        GridIndex(VertexCoord(v)) = i /\ i >= 0 /\ i < groundSegments + 1 }

\* heightData after applyHeightVariation: the last vertex written to the
\* entry, or the 0 the Float32Array was created with.
BuiltHeightData(n, ix, iz) ==
    IF VerticesAt(ix) = {} \/ VerticesAt(iz) = {} THEN 0
    ELSE VertexHeight(n,
                      CHOOSE v \in VerticesAt(ix) : \A w \in VerticesAt(ix) : w <= v,
                      CHOOSE v \in VerticesAt(iz) : \A w \in VerticesAt(iz) : w <= v)

\* this.heightData[iz * width + ix], in mm.
HeightData(ter, ix, iz) ==
    IF ter \in Noises THEN BuiltHeightData(ter, ix, iz)
    ELSE IF ter = "steps"
    THEN IF iz <= 102 THEN 0
         ELSE IF iz <= 104 THEN 12000
         ELSE -20000
    ELSE 0

\* Fractional position inside the cell, in thousandths.
GridFraction(c) ==
    TDiv((((c + groundSize \div 2) * (groundSegments + 1)) % groundSize) * One,
         groundSize)

\* A boundary check that lets the last index through.
OutOfDomainPastWidth(x, z) ==
    LET width == groundSegments + 1
        ix    == GridIndex(x)
        iz    == GridIndex(z)
    IN ix < 0 \/ ix >= width \/ iz < 0 \/ iz >= width

\* True when getHeightAt answers with its boundary value instead of samples.
OutOfDomain(x, z) ==
    LET width == groundSegments + 1
        ix    == GridIndex(x)
        iz    == GridIndex(z)
    IN ix < 0 \/ ix >= width - 1 \/ iz < 0 \/ iz >= width - 1

\* An interpolation along z only, from the samples at the low x side of
\* the cell.
InterpolateFromCorner(h00, h10, h01, h11, percentX, percentZ) ==
    TDiv(h00 * (One - percentZ) + h01 * percentZ, One)

\* The bilinear interpolation of the four samples.
Interpolate(h00, h10, h01, h11, percentX, percentZ) ==
    LET h0 == TDiv(h00 * (One - percentX) + h10 * percentX, One)
        h1 == TDiv(h01 * (One - percentX) + h11 * percentX, One)
    IN TDiv(h0 * (One - percentZ) + h1 * percentZ, One)

\* The interpolation in cell (ix, iz) at the given fractional position.
CellHeight(ter, ix, iz, percentX, percentZ) ==
    Interpolate(HeightData(ter, ix, iz), HeightData(ter, ix + 1, iz),
                HeightData(ter, ix, iz + 1), HeightData(ter, ix + 1, iz + 1),
                percentX, percentZ)

\* Terrain.getHeightAt(x, z), in mm.
GetHeightAt(ter, x, z) ==
    IF ter = "unbuilt" THEN 0
    ELSE IF OutOfDomain(x, z) THEN 0
    ELSE CellHeight(ter, GridIndex(x), GridIndex(z), GridFraction(x), GridFraction(z))

\* The spread of four height samples taken 2 m around (x, z).
RoughnessOf(h1, h2, h3, h4) ==
    Max(Max(h1, h2), Max(h3, h4)) - Min(Min(h1, h2), Min(h3, h4))

\* Terrain.getRoughnessAt(x, z), in mm.
GetRoughnessAt(ter, x, z) ==
    RoughnessOf(GetHeightAt(ter, x - 2000, z - 2000), GetHeightAt(ter, x + 2000, z - 2000),
                GetHeightAt(ter, x - 2000, z + 2000), GetHeightAt(ter, x + 2000, z + 2000))

\* The heightData indices getHeightAt(x, z) reads.
ReadIndices(ter, x, z) ==
    IF ter = "unbuilt" THEN {}
    ELSE IF OutOfDomain(x, z) THEN {}
    ELSE LET width == groundSegments + 1
             ix    == GridIndex(x)
             iz    == GridIndex(z)
         IN { iz * width + ix, iz * width + (ix + 1),
              (iz + 1) * width + ix, (iz + 1) * width + (ix + 1) }

\* ------------------------------------------------------------------------
\* TruckPhysics (physics.js): constants
\* ------------------------------------------------------------------------

mass == 1200

engineForce == 28000

brakingForce == 18000

\* 0.01, in thousandths
rollingResistance == 10

\* 0.05, in thousandths
dragCoefficient == 50

\* 0.6 rad, in thousandths
maxSteeringAngle == 600

normalMaxSpeedKmh == 120

\* 2.5, in thousandths
lateralFriction == 2500

\* 0.9, in thousandths
lateralFrictionCoefficient == 900

\* 1.0, in thousandths
frictionMultiplierAtLowSpeed == 1000

\* 1.5 m/s, in mm/s
minSpeedForFullFriction == 1500

\* 0.8 m, in mm
suspensionHeight == 800

\* ms
boundaryCollisionCooldown == 500

nitroMultiplier == 2

\* 9.8 m/s^2, in mm/s^2
gravity == 9800

\* 1750 - 5 (m), in mm
boundaryLimit == 1750000 - 5000

\* The object built by the constructor.
Constructed ==
    [ position          |-> Vec(0, 500, 0),
      velocity          |-> Vec(0, 0, 0),
      acceleration      |-> Vec(0, 0, 0),
      rotation          |-> 0,
      angularVelocity   |-> 0,
      maxSpeedKmh       |-> 120,
      groundContact     |-> TRUE,
      throttle          |-> 0,
      brake             |-> 0,
      steering          |-> 0,
      targetSteering    |-> 0,
      targetThrottle    |-> 0,
      targetBrake       |-> 0,
      bounce            |-> 0,
      bounceVelocity    |-> 0,
      lastBoundaryCollisionTime |-> 0,
      nitroActive       |-> FALSE ]

\* ------------------------------------------------------------------------
\* TruckPhysics.update: the pieces, in the order of the code
\* ------------------------------------------------------------------------

\* A filter whose factor is not limited to 1.
SmoothUnlimited(current, target, factor) ==
    current + RDiv((target - current) * factor, One)

\* current += (target - current) * Math.min(1, deltaTime * rate);
\* factor is deltaTime * rate in thousandths.  The step is rounded away from
\* zero, so that the control converges on its target as the real-valued
\* filter does, and never passes it.
Smooth(current, target, factor) ==
    current + RDiv((target - current) * Min(One, factor), One)

\* forwardDir = (sin(rotation), 0, cos(rotation)), in thousandths.
ForwardDir(rotation) == Vec(Sin(rotation), 0, Cos(rotation))

\* speedSq > 0.01
MovingFasterThanTenth(v) ==
    \/ VMax(v) > 26000
    \/ v.x * v.x + v.y * v.y + v.z * v.z > 10000

\* An engine driven by the brake control instead of the throttle.
EngineOnBrakeControl(t, forwardDir) ==
    VScale(forwardDir, TDiv(t.brake * engineForce, mass), One)

\* Engine force along the heading.
EngineAccel(t, forwardDir) ==
    VScale(forwardDir, TDiv(t.throttle * engineForce, mass), One)

\* Braking force against the forward component of the velocity.
BrakeAccel(t, forwardDir) ==
    LET velInForwardDir == VDot(t.velocity, forwardDir)
    IN IF t.brake > 0 /\ Abs(velInForwardDir) > 100
       THEN VScale(forwardDir,
                   -Sign(velInForwardDir) * TDiv(t.brake * brakingForce, mass),
                   One)
       ELSE Vec(0, 0, 0)

\* A lateral friction magnitude that is not limited by the lateral speed.
LateralFrictionUncapped(lateralSpeed, lateralFrictionAccelLength, dt) ==
    lateralFrictionAccelLength

\* Magnitude of the lateral friction acceleration before and after its cap.
LateralFrictionCap(lateralSpeed, lateralFrictionAccelLength, dt) ==
    IF dt = 0 THEN lateralFrictionAccelLength
    ELSE Min(TDiv(lateralSpeed * One, dt), lateralFrictionAccelLength)

\* Lateral tyre friction.
LateralFrictionAccel(t, dt, speed, lateralVelocityVector, lateralSpeed) ==
    IF t.groundContact /\ lateralSpeed > 10
    THEN LET frictionMultiplier ==
                 IF speed < minSpeedForFullFriction /\ speed > 100
                 THEN frictionMultiplierAtLowSpeed
                      + TDiv((One - frictionMultiplierAtLowSpeed) * speed,
                             minSpeedForFullFriction)
                 ELSE One
             slipRatio == Min(One, TDiv(lateralSpeed * One, speed + 100))
             frictionCoeff ==
                 TDiv(lateralFrictionCoefficient * Pow04(One - slipRatio), One)
             accelLength ==
                 TDiv(TDiv(lateralFriction * frictionCoeff, One)
                      * frictionMultiplier, One)
             maxLateralAccel == LateralFrictionCap(lateralSpeed, accelLength, dt)
         IN VScale(lateralVelocityVector, -maxLateralAccel, lateralSpeed)
    ELSE Vec(0, 0, 0)

\* Quadratic air drag.
DragAccel(v, speed) ==
    IF v # Vec(0, 0, 0) /\ speed > 0
    THEN LET s10     == speed \div 10
             dragMag == TDiv(s10 * s10, (One \div dragCoefficient) * mass * 10)
         IN VScale(v, -dragMag, speed)
    ELSE Vec(0, 0, 0)

\* Rolling resistance.
RollingAccel(t, speed) ==
    IF t.groundContact /\ MovingFasterThanTenth(t.velocity)
    THEN LET speedFactor == Min(One, speed \div 10)
             adjustedRollingResistance ==
                 TDiv(rollingResistance * (One + speedFactor \div 2), One)
             rollResistMag == TDiv(adjustedRollingResistance * gravity, One)
         IN VScale(t.velocity, -rollResistMag, speed)
    ELSE Vec(0, 0, 0)

\* The speed limit: velocity scaled by maxSpeedKmh / speedKmh when over it.
LimitSpeed(v, speed, maxSpeedKmh) ==
    IF speed * 36 > maxSpeedKmh * 10000
    THEN VScale(v, TDiv(((maxSpeedKmh * 10000) \div 36) * 10000, speed), 10000)
    ELSE v

\* A steering response that does not scale with speed.
SteeringAtAnySpeed(speed) == One

\* Math.min(1.0, speed / 1.5)
SteeringSpeedFactor(speed) == Min(One, TDiv(speed * One, 1500))

\* Angular acceleration from steering, in milliradians/s^2.
SteeringEffect(t, speed, lateralSpeed) ==
    IF t.groundContact
    THEN LET steeringSpeedFactor == SteeringSpeedFactor(speed)
             highSpeedFactor  == Max(800, One - TDiv(speed, 250))
             steeringResponse ==
                 TDiv(TDiv(3500 * steeringSpeedFactor, One) * highSpeedFactor, One)
             lateralGripFactor ==
                 Max(900, One - TDiv(lateralSpeed * One, speed + 100))
         IN TDiv(TDiv(t.steering * steeringResponse, One) * lateralGripFactor, One)
    ELSE 0

\* A clamp to the half-extent of the world without the 5 m buffer.
ClampWithoutBuffer(c) == Max(-(boundaryLimit + 5000), Min(boundaryLimit + 5000, c))

\* Math.max(-boundaryLimit, Math.min(boundaryLimit, c))
ClampToBoundary(c) == Max(-boundaryLimit, Min(boundaryLimit, c))

\* A boundary hit that reflects the velocity component at half strength.
BoundaryRebound(v, potential) ==
    IF Abs(potential) > boundaryLimit THEN -TDiv(v, 2) ELSE v

\* Velocity component after a boundary hit on its axis.
BoundaryVelocity(v, potential) ==
    IF Abs(potential) > boundaryLimit THEN TDiv(v, 2) ELSE v

\* A terrain sample taken where the vehicle was before it moved.
StaleTerrainSample(ter, newPosition, oldPosition) ==
    GetHeightAt(ter, oldPosition.x, oldPosition.z)

\* Where the terrain is sampled for the suspension: the moved position.
TerrainSample(ter, newPosition, oldPosition) ==
    GetHeightAt(ter, newPosition.x, newPosition.z)

\* A ride height that leaves the suspension height out.
TargetHeightOnGround(terrainY, bounce) == terrainY + TDiv(bounce * 7, 10)

\* terrainY + suspensionHeight + bounce * 0.7
TargetHeight(terrainY, bounce) == terrainY + suspensionHeight + TDiv(bounce * 7, 10)

\* The final ground clamp on position.y.
FloorClamp(y, terrainY) == IF y < terrainY + 100 THEN terrainY + 100 ELSE y

\* ------------------------------------------------------------------------
\* TruckPhysics.update(deltaTime, getTerrainHeightAt, getTerrainRoughnessAt)
\* ------------------------------------------------------------------------

\* Control smoothing (first statements of update).
SmoothControls(t, dt) ==
    [t EXCEPT !.steering = Smooth(t.steering, t.targetSteering, dt * 2),
              !.throttle = Smooth(t.throttle, t.targetThrottle, (dt * 3) \div 2),
              !.brake    = Smooth(t.brake, t.targetBrake, dt * 2)]

\* The velocity split along and across the heading.
KinematicsOf(forwardDir, speed, forwardVelocity, lateralVelocityVector) ==
    [ forwardDir            |-> forwardDir,
      speed                 |-> speed,
      forwardVelocity       |-> forwardVelocity,
      lateralVelocityVector |-> lateralVelocityVector,
      lateralSpeed          |-> VLen(lateralVelocityVector) ]

\* lateralVelocityVector = velocity - forwardDir * forwardVelocity
KinematicsSplit(v, forwardDir, forwardVelocity) ==
    KinematicsOf(forwardDir, VLen(v), forwardVelocity,
                 VSub(v, VScale(forwardDir, forwardVelocity, One)))

\* forwardVelocity = velocity . forwardDir
KinematicsAlong(v, forwardDir) ==
    KinematicsSplit(v, forwardDir, VDot(v, forwardDir))

\* Heading, speed and velocity components at entry to the step.
Kinematics(t) == KinematicsAlong(t.velocity, ForwardDir(t.rotation))

\* Sum of gravity, engine, brake, lateral friction, drag and rolling
\* resistance.
Acceleration(t, dt, k) ==
    VAdd(VAdd(VAdd(VAdd(VAdd(Vec(0, -gravity, 0),
         EngineAccel(t, k.forwardDir)),
         BrakeAccel(t, k.forwardDir)),
         LateralFrictionAccel(t, dt, k.speed, k.lateralVelocityVector,
                              k.lateralSpeed)),
         DragAccel(t.velocity, k.speed)),
         RollingAccel(t, k.speed))

\* Angular velocity after the steering effect and the damping.
AngularVelocity(t, dt, k) ==
    TDiv((t.angularVelocity + SteeringEffect(t, k.speed, k.lateralSpeed) * dt) * 9, 10)

\* Speed limit, then rotation and velocity advanced by the step.
IntegrateTo(t, dt, k, acceleration, angularVelocity) ==
    [ truck |-> [t EXCEPT !.acceleration    = acceleration,
                          !.angularVelocity = angularVelocity,
                          !.rotation = t.rotation + TDiv(angularVelocity * dt, One),
                          !.velocity = VAdd(LimitSpeed(t.velocity, k.speed, t.maxSpeedKmh),
                                            VScale(acceleration, dt, One))],
      speed           |-> k.speed,
      forwardVelocity |-> k.forwardVelocity ]

IntegrateWith(t, dt, k) ==
    IntegrateTo(t, dt, k, Acceleration(t, dt, k), AngularVelocity(t, dt, k))

IntegrateSmoothed(t, dt) == IntegrateWith(t, dt, Kinematics(t))

\* Force accumulation, speed limit, yaw and velocity integration.
Integrate(t0, dt) == IntegrateSmoothed(SmoothControls(t0, dt), dt)

\* A boundary response that halves the velocity only when the collision
\* sound is due, i.e. only outside the sound's cooldown.
MoveHalvingWithSound(t, dt, now) ==
    LET movementVector       == VScale(t.velocity, dt, One)
        potentialNewPosition == VAdd(t.position, movementVector)
        hit == \/ Abs(potentialNewPosition.x) > boundaryLimit
               \/ Abs(potentialNewPosition.z) > boundaryLimit
        clampedPosition ==
            [potentialNewPosition EXCEPT
                !.x = Max(-boundaryLimit, Min(boundaryLimit, potentialNewPosition.x)),
                !.z = Max(-boundaryLimit, Min(boundaryLimit, potentialNewPosition.z))]
        sound == hit /\ (now - t.lastBoundaryCollisionTime > boundaryCollisionCooldown)
        halved(v, potential) ==
            IF sound /\ Abs(potential) > boundaryLimit THEN TDiv(v, 2) ELSE v
    IN [ truck |->
           IF hit
           THEN [t EXCEPT
                   !.velocity =
                       Vec(halved(t.velocity.x, potentialNewPosition.x),
                           t.velocity.y,
                           halved(t.velocity.z, potentialNewPosition.z)),
                   !.position = VAdd(t.position, VSub(clampedPosition, t.position)),
                   !.lastBoundaryCollisionTime =
                       IF sound THEN now ELSE t.lastBoundaryCollisionTime]
           ELSE [t EXCEPT !.position = potentialNewPosition],
         sound |-> sound ]

\* A cooldown that counts as elapsed at exactly boundaryCollisionCooldown.
CooldownReached(currentTime, lastTime) ==
    currentTime - lastTime >= boundaryCollisionCooldown

\* currentTime - this.lastBoundaryCollisionTime > this.boundaryCollisionCooldown
CooldownElapsed(currentTime, lastTime) ==
    currentTime - lastTime > boundaryCollisionCooldown

\* Movement and world-boundary containment.
Move(t, dt, now) ==
    LET movementVector       == VScale(t.velocity, dt, One)
        potentialNewPosition == VAdd(t.position, movementVector)
        hit == \/ Abs(potentialNewPosition.x) > boundaryLimit
               \/ Abs(potentialNewPosition.z) > boundaryLimit
        clampedPosition ==
            [potentialNewPosition EXCEPT
                !.x = ClampToBoundary(potentialNewPosition.x),
                !.z = ClampToBoundary(potentialNewPosition.z)]
        sound == hit /\ CooldownElapsed(now, t.lastBoundaryCollisionTime)
    IN [ truck |->
           IF hit
           THEN [t EXCEPT
                   !.velocity =
                       Vec(BoundaryVelocity(t.velocity.x, potentialNewPosition.x),
                           t.velocity.y,
                           BoundaryVelocity(t.velocity.z, potentialNewPosition.z)),
                   !.position = VAdd(t.position, VSub(clampedPosition, t.position)),
                   !.lastBoundaryCollisionTime =
                       IF sound THEN now ELSE t.lastBoundaryCollisionTime]
           ELSE [t EXCEPT !.position = potentialNewPosition],
         sound |-> sound ]

\* Suspension, bounce and the ground clamp over ground of height terrainY;
\* terrainRoughness is fetched by update() and used in no statement.
SuspendOn(t, dt, terrainY, terrainRoughness) ==
    LET targetHeight == TargetHeight(terrainY, t.bounce)
        grounded     == t.position.y < targetHeight
        impactVelocity == Max(0, -t.velocity.y)
        bounceVelocity0 ==
            IF grounded /\ impactVelocity > 5000
            THEN TDiv(impactVelocity * 2, 10)
            ELSE t.bounceVelocity
        y1  == IF grounded THEN targetHeight ELSE t.position.y
        vy1 == IF grounded THEN Max(0, t.velocity.y) ELSE t.velocity.y
        bounce1         == t.bounce + TDiv(bounceVelocity0 * dt, One)
        bounceVelocity1 == bounceVelocity0 - TDiv(5 * bounce1 * dt, One)
        y2  == FloorClamp(y1, terrainY)
        vy2 == IF y1 < terrainY + 100 THEN Max(0, vy1) ELSE vy1
    IN [t EXCEPT !.groundContact  = grounded,
                 !.position.y     = y2,
                 !.velocity.y     = vy2,
                 !.bounce         = TDiv(bounce1 * 95, 100),
                 !.bounceVelocity = TDiv(bounceVelocity1 * 95, 100)]

\* Terrain collision, suspension, bounce and the ground clamp.
Suspend(t, dt, ter, rough, oldPosition) ==
    SuspendOn(t, dt, TerrainSample(ter, t.position, oldPosition),
              GetRoughnessAt(rough, t.position.x, t.position.z))

\* What update() leaves and returns: the object, the PhysicsResult and
\* whether triggerBoundaryCollisionSound() was called.
UpdateResult(i, sound, t) ==
    [ truck  |-> t,
      sound  |-> sound,
      result |-> [ position          |-> t.position,
                   rotation          |-> t.rotation,
                   wheelRotationSpeed |-> TDiv(i.forwardVelocity, 2),
                   steering          |-> t.steering,
                   steeringAngle     |-> TDiv(t.steering * maxSteeringAngle, One),
                   speed             |-> i.speed,
                   velocity          |-> t.velocity,
                   groundContact     |-> t.groundContact,
                   bounce            |-> t.bounce,
                   nitroActive       |-> t.nitroActive ] ]

UpdateMoved(i, m, dt, ter, rough, oldPosition) ==
    UpdateResult(i, m.sound, Suspend(m.truck, dt, ter, rough, oldPosition))

UpdateIntegrated(i, dt, ter, rough, now, oldPosition) ==
    UpdateMoved(i, Move(i.truck, dt, now), dt, ter, rough, oldPosition)

\* update(dt, heightFn, roughnessFn) with the heights of ter and the
\* roughness of rough.
UpdateWith(t0, dt, ter, rough, now) ==
    UpdateIntegrated(Integrate(t0, dt), dt, ter, rough, now, t0.position)

\* The whole of update(): integration, movement, then suspension.
Update(t0, dt, ter, now) ==
    UpdateWith(t0, dt, ter, ter, now)

\* ------------------------------------------------------------------------
\* TruckPhysics.applyUserInput(input, deltaTime) and reset()
\* ------------------------------------------------------------------------

\* An input state: the keys of the normalized input.
InputOf(f, b, l, r, br, n) ==
    [forward |-> f, backward |-> b, left |-> l, right |-> r, brake |-> br, nitro |-> n]

NoInput == InputOf(FALSE, FALSE, FALSE, FALSE, FALSE, FALSE)

\* A nitro switch that turns the flag off without restoring the speed limit.
ApplyNitroWithoutRestore(t, input) ==
    IF input.nitro /\ ~t.nitroActive
    THEN [t EXCEPT !.nitroActive = TRUE,
                   !.maxSpeedKmh = normalMaxSpeedKmh * nitroMultiplier]
    ELSE IF ~input.nitro /\ t.nitroActive
    THEN [t EXCEPT !.nitroActive = FALSE]
    ELSE t

\* Nitro switch at the start of applyUserInput.
ApplyNitro(t, input) ==
    IF input.nitro /\ ~t.nitroActive
    THEN [t EXCEPT !.nitroActive = TRUE,
                   !.maxSpeedKmh = normalMaxSpeedKmh * nitroMultiplier]
    ELSE IF ~input.nitro /\ t.nitroActive
    THEN [t EXCEPT !.nitroActive = FALSE, !.maxSpeedKmh = normalMaxSpeedKmh]
    ELSE t

\* Throttle target from forward / backward / neither.
ApplyThrottle(t, input, dt) ==
    IF input.forward
    THEN [t EXCEPT !.targetThrottle = Min(One, t.targetThrottle + TDiv(7 * dt, 10)),
                   !.targetBrake = 0]
    ELSE IF input.backward
    THEN [t EXCEPT !.targetThrottle = Max(-400, t.targetThrottle - TDiv(5 * dt, 10)),
                   !.targetBrake = 0]
    ELSE [t EXCEPT !.targetThrottle =
                       IF Abs(t.targetThrottle) > 50
                       THEN TDiv(t.targetThrottle * 92, 100) ELSE 0,
                   !.targetBrake = 0]

\* A brake step that leaves the throttle target as the throttle step set it.
ApplyBrakeKeepingThrottle(t, input, dt) ==
    IF input.brake
    THEN [t EXCEPT !.targetBrake = Min(One, t.targetBrake + TDiv(8 * dt, 10))]
    ELSE t

\* Braking takes priority over throttle.
ApplyBrake(t, input, dt) ==
    IF input.brake
    THEN [t EXCEPT !.targetBrake = Min(One, t.targetBrake + TDiv(8 * dt, 10)),
                   !.targetThrottle = 0]
    ELSE t

\* Steering target: decay toward centre, then the held keys.
ApplySteering(t, input, dt) ==
    LET decayed == TDiv(t.targetSteering * 95, 100)
        left    == IF input.left THEN Min(decayed + TDiv(25 * dt, 10), One) ELSE decayed
        right   == IF input.right THEN Max(left - TDiv(25 * dt, 10), -One) ELSE left
    IN [t EXCEPT !.targetSteering = right]

ApplyUserInput(t, input, dt) ==
    ApplySteering(ApplyBrake(ApplyThrottle(ApplyNitro(t, input), input, dt), input, dt),
                  input, dt)

\* A reset that undoes the nitro multiplier on the speed limit whether or
\* not nitro was on.
ResetDividingLimit(t) ==
    [t EXCEPT !.position = Vec(0, suspensionHeight, 0),
              !.velocity = Vec(0, 0, 0),
              !.acceleration = Vec(0, 0, 0),
              !.rotation = 0,
              !.angularVelocity = 0,
              !.throttle = 0,
              !.brake = 0,
              !.steering = 0,
              !.targetThrottle = 0,
              !.targetBrake = 0,
              !.targetSteering = 0,
              !.bounce = 0,
              !.bounceVelocity = 0,
              !.nitroActive = FALSE,
              !.maxSpeedKmh = t.maxSpeedKmh \div nitroMultiplier]

\* reset()
Reset(t) ==
    [t EXCEPT !.position = Vec(0, suspensionHeight, 0),
              !.velocity = Vec(0, 0, 0),
              !.acceleration = Vec(0, 0, 0),
              !.rotation = 0,
              !.angularVelocity = 0,
              !.throttle = 0,
              !.brake = 0,
              !.steering = 0,
              !.targetThrottle = 0,
              !.targetBrake = 0,
              !.targetSteering = 0,
              !.bounce = 0,
              !.bounceVelocity = 0,
              !.nitroActive = FALSE,
              !.maxSpeedKmh = normalMaxSpeedKmh]

\* Game.updateTruck(deltaTime): applyUserInput with the current input state,
\* then update.
UpdateTruck(t, input, dt, ter, now) ==
    Update(ApplyUserInput(t, input, dt), dt, ter, now)

\* ------------------------------------------------------------------------
\* InputHandler (input.js)
\* ------------------------------------------------------------------------

\* event.code of the keys the help text and the handlers name.
KeyCodes == { "ArrowUp", "KeyW", "ArrowDown", "KeyS", "ArrowLeft", "KeyA",
              "ArrowRight", "KeyD", "Space", "KeyN", "KeyR" }

\* The switch of updateKeyState(code, isPressed) on this.keys.
UpdateKeyState(k, code, isPressed) ==
    IF code \in {"ArrowUp", "KeyW"} THEN [k EXCEPT !.forward = isPressed]
    ELSE IF code \in {"ArrowDown", "KeyS"} THEN [k EXCEPT !.backward = isPressed]
    ELSE IF code \in {"ArrowLeft", "KeyA"} THEN [k EXCEPT !.left = isPressed]
    ELSE IF code \in {"ArrowRight", "KeyD"} THEN [k EXCEPT !.right = isPressed]
    ELSE IF code = "Space" THEN [k EXCEPT !.brake = isPressed]
    ELSE k

\* force > 0.3 with force = data.force / 50; data.force in hundredths.
AboveThreshold(force) == force * 10 > 3 * 50 * 100

\* A 'move' handler whose quadrants include their borders.
JoystickMoveInclusive(k, angle, force) ==
    [k EXCEPT
       !.right    = AboveThreshold(force) /\ angle >= 45 /\ angle <= 135,
       !.left     = AboveThreshold(force) /\ ~(angle >= 45 /\ angle <= 135)
                       /\ angle >= 225 /\ angle <= 315,
       !.forward  = AboveThreshold(force) /\ (angle >= 315 \/ angle <= 45),
       !.backward = AboveThreshold(force) /\ ~(angle >= 315 \/ angle <= 45)
                       /\ angle >= 135 /\ angle <= 225]

\* The joystick 'move' handler on this.keys; angle is data.angle.degree.
JoystickMove(k, angle, force) ==
    [k EXCEPT
       !.right    = AboveThreshold(force) /\ angle > 45 /\ angle < 135,
       !.left     = AboveThreshold(force) /\ ~(angle > 45 /\ angle < 135)
                       /\ angle > 225 /\ angle < 315,
       !.forward  = AboveThreshold(force) /\ (angle > 315 \/ angle < 45),
       !.backward = AboveThreshold(force) /\ ~(angle > 315 \/ angle < 45)
                       /\ angle > 135 /\ angle < 225]

\* The joystick 'end' handler on this.keys.
JoystickEnd(k) ==
    [k EXCEPT !.forward = FALSE, !.backward = FALSE, !.left = FALSE, !.right = FALSE]

\* The input object applyUserInput is given: this.keys.  It has no nitro
\* property, so input.nitro reads undefined, which is falsy.
InputState(k) == InputOf(k.forward, k.backward, k.left, k.right, k.brake, FALSE)

\* ------------------------------------------------------------------------
\* Key states
\* ------------------------------------------------------------------------

Fwd == InputOf(TRUE, FALSE, FALSE, FALSE, FALSE, FALSE)

FwdNitro == InputOf(TRUE, FALSE, FALSE, FALSE, FALSE, TRUE)

FwdLeft == InputOf(TRUE, FALSE, TRUE, FALSE, FALSE, FALSE)

Back == InputOf(FALSE, TRUE, FALSE, FALSE, FALSE, FALSE)

BrakeOnly == InputOf(FALSE, FALSE, FALSE, FALSE, TRUE, FALSE)

LeftOnly == InputOf(FALSE, FALSE, TRUE, FALSE, FALSE, FALSE)

FwdRightBrake == InputOf(TRUE, FALSE, FALSE, TRUE, TRUE, FALSE)

\* ------------------------------------------------------------------------
\* Bounds
\* ------------------------------------------------------------------------

\* Calls of applyUserInput / update / reset explored after the opening drive.
MaxCalls == 3

\* Frame times offered to applyUserInput and update, in ms.
DTs == {0, 16, 100}

\* Wall-clock time between two update() calls, in ms.
ClockSteps == {16, 600}

\* Key states offered to applyUserInput.
Inputs == {NoInput, Fwd, FwdNitro, Back, BrakeOnly, FwdLeft, FwdRightBrake}

\* An opening drive: the keys held from the constructed object on, the
\* ground, and the number of 100 ms frames they are held for.
Opening(in, ter, n) == [input |-> in, terrain |-> ter, frames |-> n]

\* The opening drives: none; cruising at the speed limit; turning with slip;
\* nitro; up to and into the world boundary on +z; and, on the stepped
\* ground, on the rise, in the air past the drop, after the landing and
\* while the bounce offset swings below zero.
Openings ==
    { Opening(NoInput, "unbuilt", 0), Opening(NoInput, "level", 0),
      Opening(NoInput, "steps", 0),
      Opening(Fwd, "level", 40), Opening(FwdLeft, "level", 15),
      Opening(FwdNitro, "level", 50),
      Opening(FwdNitro, "level", 277), Opening(FwdNitro, "level", 280),
      Opening(Fwd, "steps", 21), Opening(Fwd, "steps", 41),
      Opening(Fwd, "steps", 71), Opening(Fwd, "steps", 79) }

\* ------------------------------------------------------------------------
\* State
\* ------------------------------------------------------------------------

VARIABLES
    truck,       \* the TruckPhysics object
    terrain,     \* the ground the height queries are answered from
    now,         \* Date.now(), ms
    result,      \* the last PhysicsResult returned by update(), or NoResult
    sound,       \* TRUE when the last update() called triggerBoundaryCollisionSound
    lastOp,      \* the last method called: "new", "input", "update", "reset"
    prevOp,      \* the method called before that
    deltaTime,   \* the deltaTime argument of the last call
    plan,        \* the scripted part of the session
    frames,      \* frames of the scripted part played so far
    calls,       \* number of free calls made after the scripted part
    twin,        \* a second vehicle with its own clock (TwinSpec only)
    keys,        \* InputHandler.keys, the input state handed to the game
    currentInputState,  \* Game.currentInputState: FALSE for null, TRUE once
                 \* it refers to InputHandler.keys
    event,       \* the last key or joystick event delivered (InputSpec only)
    probe        \* a terrain query and its answer (TerrainSpec only)

vars == <<truck, terrain, now, result, sound, lastOp, prevOp, deltaTime,
          plan, frames, calls, twin, keys, currentInputState, event,
          probe>>

NoResult == [speed |-> -1]

\* InputHandler.keys as built by the InputHandler constructor.
NoKeys == [forward |-> FALSE, backward |-> FALSE, left |-> FALSE,
           right |-> FALSE, brake |-> FALSE]

\* No key or joystick event delivered yet.
NoEvent == [kind |-> "none"]

\* No terrain query made yet.
NoProbe == [kind |-> "none"]

\* A second vehicle as constructed: the object, its clock, its last result
\* and whether its last update() called the boundary sound.
NewTwin == [truck |-> Constructed, now |-> 1000, result |-> NoResult, sound |-> FALSE]

\* A session that starts with the object t on the given ground.
StartAt(t, ter) ==
    /\ truck = t
    /\ terrain = ter
    /\ now = 1000
    /\ result = NoResult
    /\ sound = FALSE
    /\ lastOp = "new"
    /\ prevOp = "new"
    /\ deltaTime = 0
    /\ frames = 0
    /\ calls = 0
    /\ twin = NewTwin
    /\ keys = NoKeys
    /\ currentInputState = FALSE
    /\ event = NoEvent
    /\ probe = NoProbe

\* The state after `new TruckPhysics()`, on the given ground.
Fresh(ter) == StartAt(Constructed, ter)

\* update() has run with outcome u: the object is changed and the
\* PhysicsResult handed back.
Returned(u) ==
    /\ truck' = u.truck
    /\ result' = u.result
    /\ sound' = u.sound

\* The effect of one Game.updateTruck(dt) with the given keys held.
PlayFrame(input, dt) ==
    /\ Returned(UpdateTruck(truck, input, dt, terrain, now + dt))
    /\ now' = now + dt
    /\ lastOp' = "update"
    /\ prevOp' = "input"
    /\ deltaTime' = dt
    /\ frames' = frames + 1
    /\ UNCHANGED <<terrain, plan, calls, twin>>
    /\ UNCHANGED <<keys, currentInputState, event, probe>>

\* ------------------------------------------------------------------------
\* Spec: an opening drive, then any calls of the three methods
\* ------------------------------------------------------------------------

Init == \E o \in Openings : plan = o /\ Fresh(o.terrain)

\* A frame of the opening drive.
OpeningFrame ==
    /\ frames < plan.frames
    /\ PlayFrame(plan.input, 100)

\* physics.applyUserInput(input, dt)
ApplyUserInputCall(input, dt) ==
    /\ frames = plan.frames
    /\ calls < MaxCalls
    /\ truck' = ApplyUserInput(truck, input, dt)
    /\ lastOp' = "input"
    /\ prevOp' = lastOp
    /\ deltaTime' = dt
    /\ calls' = calls + 1
    /\ UNCHANGED <<terrain, now, result, sound, plan, frames, twin>>
    /\ UNCHANGED <<keys, currentInputState, event, probe>>

\* physics.update(dt, heightFn, roughnessFn), the clock having advanced
UpdateCall(dt, elapsed) ==
    /\ frames = plan.frames
    /\ calls < MaxCalls
    /\ Returned(Update(truck, dt, terrain, now + elapsed))
    /\ now' = now + elapsed
    /\ lastOp' = "update"
    /\ prevOp' = lastOp
    /\ deltaTime' = dt
    /\ calls' = calls + 1
    /\ UNCHANGED <<terrain, plan, frames, twin>>
    /\ UNCHANGED <<keys, currentInputState, event, probe>>

\* physics.reset()
ResetCall ==
    /\ frames = plan.frames
    /\ calls < MaxCalls
    /\ truck' = Reset(truck)
    /\ lastOp' = "reset"
    /\ prevOp' = lastOp
    /\ calls' = calls + 1
    /\ UNCHANGED <<terrain, now, result, sound, deltaTime, plan, frames, twin>>
    /\ UNCHANGED <<keys, currentInputState, event, probe>>

Next ==
    \/ OpeningFrame
    \/ \E input \in Inputs, dt \in DTs : ApplyUserInputCall(input, dt)
    \/ \E dt \in DTs, elapsed \in ClockSteps : UpdateCall(dt, elapsed)
    \/ ResetCall

Spec == Init /\ [][Next]_vars

\* ------------------------------------------------------------------------
\* TwinSpec: two vehicles given the same calls, each with its own clock
\* ------------------------------------------------------------------------

\* Free calls explored after the opening drive of the two vehicles.
MaxTwinCalls == 2

\* Wall-clock time per opening frame for the second vehicle, in ms.
TwinFrameClock == 16

TwinOpenings ==
    { Opening(NoInput, "level", 0), Opening(Fwd, "steps", 21),
      Opening(FwdNitro, "level", 277), Opening(FwdNitro, "level", 290) }

TwinInit == \E o \in TwinOpenings : plan = o /\ Fresh(o.terrain)

\* The second vehicle once its update() has run with outcome u.
TwinReturned(u, clock) ==
    [truck |-> u.truck, now |-> clock, result |-> u.result, sound |-> u.sound]

\* The second vehicle after update(dt) at its own clock reading.
TwinAfterUpdate(t, dt, ter, clock) ==
    TwinReturned(Update(t, dt, ter, clock), clock)

\* A frame of the opening drive, played by both vehicles.
TwinOpeningFrame ==
    /\ frames < plan.frames
    /\ Returned(UpdateTruck(truck, plan.input, 100, terrain, now + 100))
    /\ twin' = TwinAfterUpdate(ApplyUserInput(twin.truck, plan.input, 100), 100,
                               terrain, twin.now + TwinFrameClock)
    /\ now' = now + 100
    /\ lastOp' = "update"
    /\ prevOp' = "input"
    /\ deltaTime' = 100
    /\ frames' = frames + 1
    /\ UNCHANGED <<terrain, plan, calls>>
    /\ UNCHANGED <<keys, currentInputState, event, probe>>

\* applyUserInput(input, dt) on both vehicles
TwinApplyUserInput(input, dt) ==
    /\ frames = plan.frames
    /\ calls < MaxTwinCalls
    /\ truck' = ApplyUserInput(truck, input, dt)
    /\ twin' = [twin EXCEPT !.truck = ApplyUserInput(twin.truck, input, dt)]
    /\ lastOp' = "input"
    /\ prevOp' = lastOp
    /\ deltaTime' = dt
    /\ calls' = calls + 1
    /\ UNCHANGED <<terrain, now, result, sound, plan, frames>>
    /\ UNCHANGED <<keys, currentInputState, event, probe>>

\* update(dt, ...) on both vehicles, their clocks having advanced differently
TwinUpdate(dt, elapsed, twinElapsed) ==
    /\ frames = plan.frames
    /\ calls < MaxTwinCalls
    /\ Returned(Update(truck, dt, terrain, now + elapsed))
    /\ twin' = TwinAfterUpdate(twin.truck, dt, terrain, twin.now + twinElapsed)
    /\ now' = now + elapsed
    /\ lastOp' = "update"
    /\ prevOp' = lastOp
    /\ deltaTime' = dt
    /\ calls' = calls + 1
    /\ UNCHANGED <<terrain, plan, frames>>
    /\ UNCHANGED <<keys, currentInputState, event, probe>>

\* reset() on both vehicles
TwinReset ==
    /\ frames = plan.frames
    /\ calls < MaxTwinCalls
    /\ truck' = Reset(truck)
    /\ twin' = [twin EXCEPT !.truck = Reset(twin.truck)]
    /\ lastOp' = "reset"
    /\ prevOp' = lastOp
    /\ calls' = calls + 1
    /\ UNCHANGED <<terrain, now, result, sound, deltaTime, plan, frames>>
    /\ UNCHANGED <<keys, currentInputState, event, probe>>

TwinNext ==
    \/ TwinOpeningFrame
    \/ \E input \in Inputs, dt \in DTs : TwinApplyUserInput(input, dt)
    \/ \E dt \in DTs, e1 \in ClockSteps, e2 \in ClockSteps : TwinUpdate(dt, e1, e2)
    \/ TwinReset

TwinSpec == TwinInit /\ [][TwinNext]_vars

\* ------------------------------------------------------------------------
\* BrakeSpec: accelerate, coast until the throttle has died away, then hold
\* the brake alone, on level ground
\* ------------------------------------------------------------------------

\* Frames of braking played.
MaxBrakeFrames == 60

\* Frames of 100 ms the vehicle coasts for before braking.
CoastFrames == 60

BrakePlan(n, dt) == [accel |-> n, dt |-> dt]

BrakePlans == { BrakePlan(n, dt) : n \in 3..10, dt \in {16, 50, 100} }

BrakeInit == \E b \in BrakePlans : plan = b /\ Fresh("level")

\* A frame with forward held.
AccelFrame ==
    /\ frames < plan.accel
    /\ PlayFrame(Fwd, 100)

\* A frame with no key held.
CoastFrame ==
    /\ frames >= plan.accel
    /\ frames < plan.accel + CoastFrames
    /\ PlayFrame(NoInput, 100)

\* TRUE in the states reached by a braking frame.
Braking == frames > plan.accel + CoastFrames

\* A frame with only the brake held.
BrakeFrame ==
    /\ frames >= plan.accel + CoastFrames
    /\ frames < plan.accel + CoastFrames + MaxBrakeFrames
    /\ PlayFrame(BrakeOnly, plan.dt)

BrakeNext == AccelFrame \/ CoastFrame \/ BrakeFrame

BrakeSpec == BrakeInit /\ [][BrakeNext]_vars

\* ------------------------------------------------------------------------
\* SteerSpec: at rest on level ground, left held alone
\* ------------------------------------------------------------------------

\* Frames of steering played.
MaxSteerFrames == 7

SteerInit ==
    /\ plan = Opening(LeftOnly, "level", 0)
    /\ \E t \in {Constructed, Reset(Constructed)} : StartAt(t, "level")

\* A frame with only left held.
SteerFrame(dt) ==
    /\ frames < MaxSteerFrames
    /\ PlayFrame(LeftOnly, dt)

SteerNext == \E dt \in {16, 100} : SteerFrame(dt)

SteerSpec == SteerInit /\ [][SteerNext]_vars

\* ------------------------------------------------------------------------
\* WallSpec: heading along +x from the spawn point, forward held
\* ------------------------------------------------------------------------

\* Frames of driving played.
MaxWallFrames == 600

WallPlan(in, dt) == [input |-> in, dt |-> dt]

WallPlans == { WallPlan(Fwd, 100), WallPlan(FwdNitro, 100), WallPlan(FwdNitro, 50) }

WallInit ==
    /\ \E w \in WallPlans : plan = w
    /\ StartAt([Constructed EXCEPT !.rotation = HalfPi], "level")

\* A frame with forward held.
WallFrame ==
    /\ frames < MaxWallFrames
    /\ PlayFrame(plan.input, plan.dt)

WallNext == WallFrame

\* The render loop keeps calling back: while frames remain to be played, the
\* next one is played.
NextFrameDue == frames < MaxWallFrames /\ frames' = frames + 1

WallSpec == WallInit /\ [][WallNext]_vars /\ WF_frames(NextFrameDue)

\* ------------------------------------------------------------------------
\* StraightSpec: from rest after reset() on level ground, forward held alone
\* for two seconds of frames at 60 frames per second
\* ------------------------------------------------------------------------

\* Frames of acceleration played.
MaxStraightFrames == 120

\* 1/60 s lies between 16 ms and 17 ms: both are played.
StraightPlans == { WallPlan(Fwd, 16), WallPlan(Fwd, 17) }

StraightInit ==
    /\ \E w \in StraightPlans : plan = w
    /\ StartAt(Reset(Constructed), "level")

\* A frame with forward held.
StraightFrame ==
    /\ frames < MaxStraightFrames
    /\ PlayFrame(plan.input, plan.dt)

StraightNext == StraightFrame

StraightSpec == StraightInit /\ [][StraightNext]_vars

\* ------------------------------------------------------------------------
\* InputSpec: key and joystick events delivered to the InputHandler, and
\* frames of the game that reads its keys
\* ------------------------------------------------------------------------

\* Events and frames explored.
MaxInputCalls == 3

\* data.angle.degree of the joystick events offered.
Angles == {0, 30, 45, 90, 135, 180, 225, 270, 315, 330}

\* data.force of the joystick events offered, in hundredths.
Forces == {1000, 1500, 2500}

InputInit == plan = Opening(NoInput, "level", 0) /\ Fresh("level")

\* keydown / keyup: updateKeyState, the callbacks when the keys changed,
\* and the game's own keydown listener for the reset key.
KeyEvent(code, isPressed) ==
    /\ calls < MaxInputCalls
    /\ keys' = UpdateKeyState(keys, code, isPressed)
    /\ currentInputState' = (currentInputState \/ keys' # keys)
    /\ event' = [kind |-> "key", code |-> code, isPressed |-> isPressed]
    /\ truck' = IF code = "KeyR" /\ isPressed THEN Reset(truck) ELSE truck
    /\ lastOp' = IF code = "KeyR" /\ isPressed THEN "reset" ELSE "key"
    /\ prevOp' = lastOp
    /\ calls' = calls + 1
    /\ UNCHANGED <<terrain, now, result, sound, deltaTime, plan, frames, twin, probe>>

\* The joystick 'move' event.
JoystickMoveEvent(angle, force) ==
    /\ calls < MaxInputCalls
    /\ keys' = JoystickMove(keys, angle, force)
    /\ currentInputState' = TRUE
    /\ event' = [kind |-> "move", angle |-> angle, force |-> force]
    /\ lastOp' = "move"
    /\ prevOp' = lastOp
    /\ calls' = calls + 1
    /\ UNCHANGED <<truck, terrain, now, result, sound, deltaTime, plan, frames,
                   twin, probe>>

\* The joystick 'end' event.
JoystickEndEvent ==
    /\ calls < MaxInputCalls
    /\ keys' = JoystickEnd(keys)
    /\ currentInputState' = TRUE
    /\ event' = [kind |-> "end", brake |-> keys.brake]
    /\ lastOp' = "end"
    /\ prevOp' = lastOp
    /\ calls' = calls + 1
    /\ UNCHANGED <<truck, terrain, now, result, sound, deltaTime, plan, frames,
                   twin, probe>>

\* Game.updateTruck(dt): applyUserInput with the keys once the game has been
\* handed them, then update.
GameFrame(dt) ==
    /\ calls < MaxInputCalls
    /\ Returned(IF currentInputState
                THEN UpdateTruck(truck, InputState(keys), dt, terrain, now + dt)
                ELSE Update(truck, dt, terrain, now + dt))
    /\ now' = now + dt
    /\ lastOp' = "update"
    /\ prevOp' = lastOp
    /\ deltaTime' = dt
    /\ calls' = calls + 1
    /\ UNCHANGED <<terrain, plan, frames, twin, keys, currentInputState, event,
                   probe>>

InputNext ==
    \/ \E code \in KeyCodes, isPressed \in BOOLEAN : KeyEvent(code, isPressed)
    \/ \E angle \in Angles, force \in Forces : JoystickMoveEvent(angle, force)
    \/ JoystickEndEvent
    \/ \E dt \in {16, 100} : GameFrame(dt)

InputSpec == InputInit /\ [][InputNext]_vars

\* ------------------------------------------------------------------------
\* ControlSpec: any calls of applyUserInput, update and reset on a new
\* vehicle, each applyUserInput call remembered with the object it found
\* ------------------------------------------------------------------------

\* Calls explored.
MaxControlCalls == 4

ControlInit == plan = Opening(NoInput, "level", 0) /\ Fresh("level")

\* Consecutive applyUserInput calls with the brake held, this one included.
BrakeHeld(input) ==
    IF ~input.brake THEN 0
    ELSE IF event.kind = "input" THEN event.held + 1
    ELSE 1

\* physics.applyUserInput(input, dt)
ControlInput(input, dt) ==
    /\ calls < MaxControlCalls
    /\ truck' = ApplyUserInput(truck, input, dt)
    /\ event' = [kind |-> "input", input |-> input, dt |-> dt, before |-> truck,
                 held |-> BrakeHeld(input)]
    /\ lastOp' = "input"
    /\ prevOp' = lastOp
    /\ deltaTime' = dt
    /\ calls' = calls + 1
    /\ UNCHANGED <<terrain, now, result, sound, plan, frames, twin, keys,
                   currentInputState, probe>>

\* physics.update(dt, heightFn, roughnessFn) one frame later
ControlUpdate(dt) ==
    /\ calls < MaxControlCalls
    /\ Returned(Update(truck, dt, terrain, now + dt))
    /\ now' = now + dt
    /\ lastOp' = "update"
    /\ prevOp' = lastOp
    /\ deltaTime' = dt
    /\ calls' = calls + 1
    /\ UNCHANGED <<terrain, plan, frames, twin, keys, currentInputState, event,
                   probe>>

\* physics.reset()
ControlReset ==
    /\ calls < MaxControlCalls
    /\ truck' = Reset(truck)
    /\ event' = [kind |-> "reset"]
    /\ lastOp' = "reset"
    /\ prevOp' = lastOp
    /\ calls' = calls + 1
    /\ UNCHANGED <<terrain, now, result, sound, deltaTime, plan, frames, twin,
                   keys, currentInputState, probe>>

ControlNext ==
    \/ \E input \in Inputs, dt \in {16, 100} : ControlInput(input, dt)
    \/ \E dt \in {16, 100} : ControlUpdate(dt)
    \/ ControlReset

ControlSpec == ControlInit /\ [][ControlNext]_vars

\* ------------------------------------------------------------------------
\* TerrainSpec: build() of the terrain, then getHeightAt queries
\* ------------------------------------------------------------------------

\* Grid vertices queried, per axis: the first, the centre and its
\* neighbours, the last two.
ProbeVertices == {0, 1, 99, 100, 101, 102, 103, 104, 199, 200}

\* World coordinates queried, per axis, in mm: outside the ground, on its
\* edges, inside cells, and either side of the last cell.
ProbeCoords == {-1100000, -1000001, -1000000, -3333, 0, 25000, 990049, 990050,
                995000, 1000000, 1745000}

\* Cell edges queried, per axis: the edge between cells i - 1 and i.
ProbeEdges == {1, 100, 101, 103, 199}

\* The smallest coordinate, in mm, whose grid index is i.
EdgeCoord(i) ==
    (i * groundSize + groundSegments) \div (groundSegments + 1) - groundSize \div 2

\* Queries explored after one another.
MaxProbes == 1

TerrainInit == plan = Opening(NoInput, "unbuilt", 0) /\ Fresh("unbuilt")

\* Terrain.build() -> applyHeightVariation, the noise being n.
Build(n) ==
    /\ terrain = "unbuilt"
    /\ terrain' = n
    /\ probe' = [kind |-> "build"]
    /\ lastOp' = "build"
    /\ UNCHANGED <<truck, now, result, sound, prevOp, deltaTime, plan, frames,
                   calls, twin, keys, currentInputState, event>>

\* getHeightAt at the world position of vertex (vx, vz).
HeightAtVertex(vx, vz) ==
    /\ calls < MaxProbes
    /\ calls' = calls + 1
    /\ probe' = [kind |-> "vertex", vx |-> vx, vz |-> vz,
                 height |-> GetHeightAt(terrain, VertexCoord(vx), VertexCoord(vz))]
    /\ lastOp' = "getHeightAt"
    /\ UNCHANGED <<truck, terrain, now, result, sound, prevOp, deltaTime, plan,
                   frames, twin, keys, currentInputState, event>>

\* getHeightAt(x, z)
HeightAtPoint(x, z) ==
    /\ calls < MaxProbes
    /\ calls' = calls + 1
    /\ probe' = [kind |-> "point", x |-> x, z |-> z,
                 height |-> GetHeightAt(terrain, x, z),
                 reads |-> ReadIndices(terrain, x, z)]
    /\ lastOp' = "getHeightAt"
    /\ UNCHANGED <<truck, terrain, now, result, sound, prevOp, deltaTime, plan,
                   frames, twin, keys, currentInputState, event>>

\* getHeightAt either side of the edge between cells i - 1 and i of one
\* axis, at coordinate c of the other axis: the interpolation of cell i - 1
\* at fraction 1 and of cell i at fraction 0, and the values 1 mm apart
\* across the edge.
HeightAcrossEdge(axis, i, c) ==
    /\ calls < MaxProbes
    /\ calls' = calls + 1
    /\ ~OutOfDomain(c, c)
    /\ probe' =
         IF axis = "x"
         THEN [kind |-> "edge", axis |-> axis, index |-> i, along |-> c,
               fromBelow |-> CellHeight(terrain, i - 1, GridIndex(c), One, GridFraction(c)),
               fromAbove |-> CellHeight(terrain, i, GridIndex(c), 0, GridFraction(c)),
               below |-> GetHeightAt(terrain, EdgeCoord(i) - 1, c),
               above |-> GetHeightAt(terrain, EdgeCoord(i), c),
               step |-> Max(Abs(HeightData(terrain, i, GridIndex(c))
                                  - HeightData(terrain, i - 1, GridIndex(c))),
                            Abs(HeightData(terrain, i, GridIndex(c) + 1)
                                  - HeightData(terrain, i - 1, GridIndex(c) + 1)))]
         ELSE [kind |-> "edge", axis |-> axis, index |-> i, along |-> c,
               fromBelow |-> CellHeight(terrain, GridIndex(c), i - 1, GridFraction(c), One),
               fromAbove |-> CellHeight(terrain, GridIndex(c), i, GridFraction(c), 0),
               below |-> GetHeightAt(terrain, c, EdgeCoord(i) - 1),
               above |-> GetHeightAt(terrain, c, EdgeCoord(i)),
               step |-> Max(Abs(HeightData(terrain, GridIndex(c), i)
                                  - HeightData(terrain, GridIndex(c), i - 1)),
                            Abs(HeightData(terrain, GridIndex(c) + 1, i)
                                  - HeightData(terrain, GridIndex(c) + 1, i - 1)))]
    /\ lastOp' = "getHeightAt"
    /\ UNCHANGED <<truck, terrain, now, result, sound, prevOp, deltaTime, plan,
                   frames, twin, keys, currentInputState, event>>

TerrainNext ==
    \/ \E n \in Noises : Build(n)
    \/ \E vx \in ProbeVertices, vz \in ProbeVertices : HeightAtVertex(vx, vz)
    \/ \E x \in ProbeCoords, z \in ProbeCoords : HeightAtPoint(x, z)
    \/ \E axis \in {"x", "z"}, i \in ProbeEdges, c \in ProbeCoords :
           HeightAcrossEdge(axis, i, c)

TerrainSpec == TerrainInit /\ [][TerrainNext]_vars

\* ------------------------------------------------------------------------
\* DropSpec: two vehicles driven over the rise and off the drop of the
\* stepped ground; the second is given another roughness function and, in
\* some plans, is restarted from the first with its bounce cleared
\* ------------------------------------------------------------------------

\* Frames of driving played.
MaxDropFrames == 90

\* Keys and dt of every frame, the ground whose roughness the second vehicle
\* is given, and the frame before which the second vehicle is made a copy of
\* the first with bounce and bounceVelocity 0 (-1: never).
DropPlan(in, dt, rough, fork) ==
    [input |-> in, dt |-> dt, rough |-> rough, fork |-> fork]

DropPlans ==
    { DropPlan(Fwd, 100, "ridge", -1), DropPlan(Fwd, 100, "steps", 63),
      DropPlan(FwdNitro, 100, "ridge", -1) }

DropInit == (\E d \in DropPlans : plan = d) /\ Fresh("steps")

\* The first vehicle with its bounce state cleared.
WithoutBounce(t) == [t EXCEPT !.bounce = 0, !.bounceVelocity = 0]

\* A frame played by both vehicles.
DropFrame ==
    /\ frames < MaxDropFrames
    /\ Returned(UpdateTruck(truck, plan.input, plan.dt, terrain, now + plan.dt))
    /\ twin' = TwinReturned(
                   UpdateWith(ApplyUserInput(IF frames = plan.fork
                                             THEN WithoutBounce(truck)
                                             ELSE twin.truck,
                                             plan.input, plan.dt),
                              plan.dt, terrain, plan.rough, now + plan.dt),
                   now + plan.dt)
    /\ event' = [kind |-> "frame", before |-> truck]
    /\ now' = now + plan.dt
    /\ lastOp' = "update"
    /\ prevOp' = "input"
    /\ deltaTime' = plan.dt
    /\ frames' = frames + 1
    /\ UNCHANGED <<terrain, plan, calls, keys, currentInputState, probe>>

DropNext == DropFrame

DropSpec == DropInit /\ [][DropNext]_vars

\* ------------------------------------------------------------------------
\* StuckSpec: the game loop of main.js with its own simple physics object,
\* keys held from the start
\* ------------------------------------------------------------------------

\* Frames of the loop played.
MaxStuckFrames == 60

\* Seconds stuck before the automatic reset, in ms.
stuckThreshold == 5000

\* this.truckPhysics as setupSimplePhysics creates it; stuckTime -1 stands
\* for the property not being there (undefined).
SimplePhysics ==
    [ position       |-> Vec(0, 2000, 0),
      velocity       |-> Vec(0, 0, 0),
      rotation       |-> 0,
      groundContact  |-> TRUE,
      groundNormalY  |-> One,
      throttle       |-> 0,
      brake          |-> 0,
      steering       |-> 0,
      targetSteering |-> 0,
      targetThrottle |-> 0,
      targetBrake    |-> 0,
      keys           |-> NoKeys,
      stuckTime      |-> -1 ]

\* Game.updatePhysicsFromKeys()
UpdatePhysicsFromKeys(p) ==
    [p EXCEPT
       !.targetThrottle = IF p.keys.brake THEN 0
                          ELSE IF p.keys.forward THEN One ELSE 0,
       !.targetBrake    = IF p.keys.brake THEN One
                          ELSE IF p.keys.forward THEN 0
                          ELSE IF p.keys.backward THEN One ELSE 0,
       !.targetSteering = IF p.keys.left /\ ~p.keys.right THEN -One
                          ELSE IF p.keys.right /\ ~p.keys.left THEN One
                          ELSE 0]

\* Target speed from the throttle and brake targets, mm/s.
SimpleTargetSpeed(p) ==
    IF p.targetThrottle > 0 THEN TDiv(20000 * p.targetThrottle, One)
    ELSE IF p.targetBrake > 0 THEN -TDiv(12000 * p.targetBrake, One)
    ELSE 0

\* currentSpeed moved toward targetSpeed at rate 8 (speeding up) or 12.
SimpleSpeed(currentSpeed, targetSpeed, dt) ==
    currentSpeed
      + TDiv((targetSpeed - currentSpeed)
               * Min(One, (IF targetSpeed > currentSpeed THEN 8 ELSE 12) * dt), One)

\* The rest of updateTruckPhysics once the new speed is known: velocity,
\* steering, rotation, position (over the flat central area, ground height
\* 0), ground contact, throttle and brake.
SimpleMove(p, dt, truckForward, currentSpeed, steering) ==
    [p EXCEPT
       !.velocity = VScale(truckForward, currentSpeed, One),
       !.steering = steering,
       !.rotation = p.rotation + TDiv(TDiv(12 * steering * dt, 10) * 2000,
                                      2000 + Abs(currentSpeed) \div 10),
       !.position =
           Vec(p.position.x + TDiv(TDiv(truckForward.x * currentSpeed, One) * dt, One),
               p.position.y + TDiv((500 - p.position.y) * Min(One, 10 * dt), One),
               p.position.z + TDiv(TDiv(truckForward.z * currentSpeed, One) * dt, One)),
       !.groundContact = TRUE,
       !.throttle = p.throttle + TDiv((p.targetThrottle - p.throttle) * Min(One, 5 * dt), One),
       !.brake    = p.brake + TDiv((p.targetBrake - p.brake) * Min(One, 5 * dt), One)]

\* steering moved toward its target at rate 5 - min(4, |currentSpeed| * 0.2).
SimpleSteering(p, dt, currentSpeed) ==
    p.steering
      + TDiv((p.targetSteering - p.steering)
               * Min(One, TDiv((5000 - Min(4000, Abs(currentSpeed) \div 5)) * dt, One)),
             One)

SimpleMoveAt(p, dt, truckForward, currentSpeed) ==
    SimpleMove(p, dt, truckForward, currentSpeed, SimpleSteering(p, dt, currentSpeed))

SimpleMoveAlong(p, dt, truckForward) ==
    SimpleMoveAt(p, dt, truckForward,
                 SimpleSpeed(VDot(p.velocity, truckForward), SimpleTargetSpeed(p), dt))

\* Game.updateTruckPhysics(deltaTime) of main.js
UpdateTruckPhysics(p, dt) == SimpleMoveAlong(p, dt, ForwardDir(p.rotation))

\* isStalled || isFlipped
IsStuck(p) ==
    \/ /\ VMax(p.velocity) < 100
       /\ p.velocity.x * p.velocity.x + p.velocity.y * p.velocity.y
            + p.velocity.z * p.velocity.z < 10000
       /\ (p.throttle > 200 \/ Abs(p.steering) > 300)
    \/ p.groundNormalY < 500

\* Game.resetTruck() of main.js, ground height 0 at the origin.
SimpleResetTruck(p) ==
    [p EXCEPT !.position = Vec(0, 1000, 0), !.velocity = Vec(0, 0, 0),
              !.rotation = 0, !.groundContact = TRUE,
              !.throttle = 0, !.brake = 0, !.steering = 0,
              !.targetThrottle = 0, !.targetBrake = 0, !.targetSteering = 0,
              !.keys = NoKeys]

\* The stuck timer after the increment-or-clear statement.
StuckTimeAfter(p, dt) ==
    IF IsStuck(p) THEN Max(p.stuckTime, 0) + dt ELSE 0

\* Game.detectAndFixStuckState(deltaTime); no statement of main.js calls it.
DetectAndFixStuckState(p, dt) ==
    IF StuckTimeAfter(p, dt) > stuckThreshold
    THEN [SimpleResetTruck(p) EXCEPT !.stuckTime = 0]
    ELSE [p EXCEPT !.stuckTime = StuckTimeAfter(p, dt)]

\* The keys held and the time between animation frames, in ms.
StuckPlan(k, gap) == [keys |-> k, gap |-> gap]

StuckPlans ==
    { StuckPlan([NoKeys EXCEPT !.left = TRUE], 100),
      StuckPlan([NoKeys EXCEPT !.right = TRUE], 250),
      StuckPlan([NoKeys EXCEPT !.left = TRUE, !.brake = TRUE], 16),
      StuckPlan(NoKeys, 100) }

\* keydown of the plan's keys on the new game: updatePhysicsFromKeys.
StuckInit ==
    /\ \E w \in StuckPlans :
         /\ plan = w
         /\ StartAt(UpdatePhysicsFromKeys([SimplePhysics EXCEPT !.keys = w.keys]),
                    "level")

\* The time for which the stuck condition has held on consecutive frames,
\* this one included.
StalledFor(p, dt) ==
    IF IsStuck(p) THEN (IF event.kind = "loop" THEN event.stalledFor ELSE 0) + dt
    ELSE 0

\* The loop's frame has left the physics object p.
StuckFramePlayed(p, dt) ==
    /\ truck' = p
    /\ event' = [kind |-> "loop", stalledFor |-> StalledFor(p, dt)]
    /\ deltaTime' = dt

\* One animation frame of main.js: deltaTime = min(0.1, gap), updateTruck.
StuckFrame ==
    /\ frames < MaxStuckFrames
    /\ VMax(truck.position) <= 40000
    /\ StuckFramePlayed(UpdateTruckPhysics(truck, Min(100, plan.gap)), Min(100, plan.gap))
    /\ now' = now + plan.gap
    /\ lastOp' = "update"
    /\ prevOp' = lastOp
    /\ frames' = frames + 1
    /\ UNCHANGED <<terrain, result, sound, plan, calls, twin, keys,
                   currentInputState, probe>>

StuckNext == StuckFrame

StuckSpec == StuckInit /\ [][StuckNext]_vars

\* ------------------------------------------------------------------------
\* LoopSpec: animation frames delivered to Game.gameLoop's updateLoop
\* ------------------------------------------------------------------------

\* Animation frames delivered.
MaxLoopFrames == 3

\* Time from one animation-frame timestamp to the next, in ms; timestamps
\* never go back.
FrameGaps == {0, 7, 16, 100, 101, 5000}

\* A frame time without the safety limit.
FrameDeltaTimeUnlimited(currentTime, lastUpdateTime) == currentTime - lastUpdateTime

\* deltaTime = Math.min(0.1, currentTime - this.lastUpdateTime), in ms.
FrameDeltaTime(currentTime, lastUpdateTime) ==
    Min(100, currentTime - lastUpdateTime)

\* this.lastUpdateTime (0 from the constructor) and the last timestamp.
LastUpdateTime == IF event.kind = "raf" THEN event.lastUpdateTime ELSE 0

LastTimestamp == IF event.kind = "raf" THEN event.timestamp ELSE 0

LoopInit == plan = Opening(NoInput, "level", 0) /\ Fresh("level")

\* updateLoop(timestamp) while lastUpdateTime is still falsy: the time is
\* recorded and the next frame requested.
FirstFrame(timestamp) ==
    /\ frames < MaxLoopFrames
    /\ LastUpdateTime = 0
    /\ event' = [kind |-> "raf", timestamp |-> timestamp,
                 lastUpdateTime |-> timestamp, stepped |-> FALSE]
    /\ frames' = frames + 1
    /\ UNCHANGED <<truck, terrain, now, result, sound, lastOp, prevOp, deltaTime,
                   plan, calls, twin, keys, currentInputState, probe>>

\* updateLoop(timestamp) afterwards: the frame time, then updateTruck.
LaterFrame(timestamp) ==
    /\ frames < MaxLoopFrames
    /\ LastUpdateTime # 0
    /\ Returned(Update(truck, FrameDeltaTime(timestamp, LastUpdateTime), terrain,
                       now + (timestamp - LastTimestamp)))
    /\ deltaTime' = FrameDeltaTime(timestamp, LastUpdateTime)
    /\ event' = [kind |-> "raf", timestamp |-> timestamp,
                 lastUpdateTime |-> timestamp, stepped |-> TRUE]
    /\ now' = now + (timestamp - LastTimestamp)
    /\ lastOp' = "update"
    /\ prevOp' = lastOp
    /\ frames' = frames + 1
    /\ UNCHANGED <<terrain, plan, calls, twin, keys, currentInputState, probe>>

LoopNext ==
    \E gap \in FrameGaps :
        \/ FirstFrame(LastTimestamp + gap)
        \/ LaterFrame(LastTimestamp + gap)

LoopSpec == LoopInit /\ [][LoopNext]_vars

\* ------------------------------------------------------------------------
\* SmoothSpec: applyUserInput, update and reset with short and long dt, each
\* update remembered with the object it found
\* ------------------------------------------------------------------------

\* Calls explored.
MaxSmoothCalls == 3

\* dt of the calls, in ms: none, a frame, the loop's limit, and long enough
\* for every smoothing factor to reach 1.
SmoothDTs == {0, 16, 100, 700}

SmoothInit == plan = Opening(NoInput, "level", 0) /\ Fresh("level")

\* physics.applyUserInput(input, dt)
SmoothInput(input, dt) ==
    /\ calls < MaxSmoothCalls
    /\ truck' = ApplyUserInput(truck, input, dt)
    /\ lastOp' = "input"
    /\ prevOp' = lastOp
    /\ deltaTime' = dt
    /\ calls' = calls + 1
    /\ UNCHANGED <<terrain, now, result, sound, plan, frames, twin, keys,
                   currentInputState, event, probe>>

\* physics.update(dt, ...)
SmoothUpdate(dt) ==
    /\ calls < MaxSmoothCalls
    /\ Returned(Update(truck, dt, terrain, now + dt))
    /\ probe' = [kind |-> "update", before |-> truck]
    /\ now' = now + dt
    /\ lastOp' = "update"
    /\ prevOp' = lastOp
    /\ deltaTime' = dt
    /\ calls' = calls + 1
    /\ UNCHANGED <<terrain, plan, frames, twin, keys, currentInputState, event>>

\* physics.reset()
SmoothReset ==
    /\ calls < MaxSmoothCalls
    /\ truck' = Reset(truck)
    /\ lastOp' = "reset"
    /\ prevOp' = lastOp
    /\ calls' = calls + 1
    /\ UNCHANGED <<terrain, now, result, sound, deltaTime, plan, frames, twin,
                   keys, currentInputState, event, probe>>

SmoothNext ==
    \/ \E input \in Inputs \cup {LeftOnly}, dt \in SmoothDTs : SmoothInput(input, dt)
    \/ \E dt \in SmoothDTs : SmoothUpdate(dt)
    \/ SmoothReset

SmoothSpec == SmoothInit /\ [][SmoothNext]_vars

\* ------------------------------------------------------------------------
\* SlipSpec: cornering under power on level ground, each update remembered
\* with the object it found
\* ------------------------------------------------------------------------

\* Frames of cornering played.
MaxSlipFrames == 8

SlipInit == plan = Opening(FwdLeft, "level", 0) /\ Fresh("level")

\* One Game.updateTruck(dt) with the given keys held; probe keeps the
\* object as update() found it, after applyUserInput.
SlipFrame(input, dt) ==
    /\ frames < MaxSlipFrames
    /\ Returned(UpdateTruck(truck, input, dt, terrain, now + dt))
    /\ probe' = [kind |-> "update", before |-> ApplyUserInput(truck, input, dt)]
    /\ now' = now + dt
    /\ lastOp' = "update"
    /\ prevOp' = "input"
    /\ deltaTime' = dt
    /\ frames' = frames + 1
    /\ UNCHANGED <<terrain, plan, calls, twin, keys, currentInputState, event>>

SlipNext ==
    \/ \E dt \in {16, 100} : SlipFrame(FwdLeft, dt)
    \/ SlipFrame(NoInput, 100)

SlipSpec == SlipInit /\ [][SlipNext]_vars

\* ------------------------------------------------------------------------
\* SoundSpec: heading along +x into the boundary with forward and nitro
\* held, the wall clock advancing by a fixed amount per frame; probe keeps
\* the times of the last two calls of triggerBoundaryCollisionSound
\* ------------------------------------------------------------------------

\* Frames of driving played.
MaxSoundFrames == 600

\* The keys held, the dt of each frame and the ms of Date.now() that pass
\* from one frame to the next.
SoundPlan(in, dt, tick) == [input |-> in, dt |-> dt, tick |-> tick]

\* Frames as fast as the loop's limit and slower: a quarter of the cooldown,
\* exactly the cooldown, and one ms more.
SoundPlans == { SoundPlan(FwdNitro, 50, 50), SoundPlan(FwdNitro, 100, 100),
                SoundPlan(FwdNitro, 100, 125), SoundPlan(FwdNitro, 100, 500),
                SoundPlan(FwdNitro, 100, 501) }

\* No call of triggerBoundaryCollisionSound yet.
NoSounds == [kind |-> "sounds", last |-> -1, previous |-> -1]

SoundInit ==
    /\ \E w \in SoundPlans : plan = w
    /\ truck = [Constructed EXCEPT !.rotation = HalfPi]
    /\ terrain = "level"
    /\ now = 1000
    /\ result = NoResult
    /\ sound = FALSE
    /\ lastOp = "new"
    /\ prevOp = "new"
    /\ deltaTime = 0
    /\ frames = 0
    /\ calls = 0
    /\ twin = NewTwin
    /\ keys = NoKeys
    /\ currentInputState = FALSE
    /\ event = NoEvent
    /\ probe = NoSounds

\* A frame with the plan's keys held, plan.tick ms after the one before.
SoundFrame ==
    /\ frames < MaxSoundFrames
    /\ Returned(UpdateTruck(truck, plan.input, plan.dt, terrain, now + plan.tick))
    /\ probe' = IF UpdateTruck(truck, plan.input, plan.dt, terrain, now + plan.tick).sound
                THEN [probe EXCEPT !.last = now + plan.tick, !.previous = probe.last]
                ELSE probe
    /\ now' = now + plan.tick
    /\ lastOp' = "update"
    /\ prevOp' = "input"
    /\ deltaTime' = plan.dt
    /\ frames' = frames + 1
    /\ UNCHANGED <<terrain, plan, calls, twin, keys, currentInputState, event>>

SoundNext == SoundFrame

SoundSpec == SoundInit /\ [][SoundNext]_vars

\* ------------------------------------------------------------------------
\* RestSpec: the constructed or reset object on level ground, update() and
\* reset() called with no input
\* ------------------------------------------------------------------------

\* Calls explored.
MaxRestFrames == 6

\* The object after new TruckPhysics(), update(0), update(0): at ride height
\* with groundContact false.
ConstructedAirborne ==
    Update(Update(Constructed, 0, "level", 1000).truck, 0, "level", 1000).truck

RestInit ==
    /\ plan = Opening(NoInput, "level", 0)
    /\ \E t \in {Constructed, Reset(Constructed), Reset(ConstructedAirborne)} :
           StartAt(t, "level")

\* physics.update(dt, ...) with 0 < dt <= 0.1
RestUpdate(dt) ==
    /\ frames < MaxRestFrames
    /\ Returned(Update(truck, dt, terrain, now + dt))
    /\ now' = now + dt
    /\ lastOp' = "update"
    /\ prevOp' = lastOp
    /\ deltaTime' = dt
    /\ frames' = frames + 1
    /\ UNCHANGED <<terrain, plan, calls, twin, keys, currentInputState, event, probe>>

\* physics.reset()
RestReset ==
    /\ frames < MaxRestFrames
    /\ truck' = Reset(truck)
    /\ lastOp' = "reset"
    /\ prevOp' = lastOp
    /\ frames' = frames + 1
    /\ UNCHANGED <<terrain, now, result, sound, deltaTime, plan, calls, twin,
                   keys, currentInputState, event, probe>>

RestNext ==
    \/ \E dt \in {16, 50, 100} : RestUpdate(dt)
    \/ RestReset

RestSpec == RestInit /\ [][RestNext]_vars

\* ------------------------------------------------------------------------
\* Properties
\* ------------------------------------------------------------------------

\* The speed limit in force: 120 km/h, times nitroMultiplier under nitro.
SpeedCapKmh(t) ==
    normalMaxSpeedKmh * (IF t.nitroActive THEN nitroMultiplier ELSE 1)

\* C1: immediately after update() returns from a step with dt in (0, 0.1],
\* |velocity| * 3.6 is at most the speed limit in force (120 km/h, or
\* 240 km/h under nitro), within a tolerance of half a km/h.
C1_SpeedCap ==
    (lastOp = "update" /\ deltaTime > 0)
        => VLen(truck.velocity) * 36 <= SpeedCapKmh(truck) * 10000 + 5000

\* C2: after any number of update() calls the vehicle is inside the world
\* boundary: |position.x| <= boundaryLimit and |position.z| <= boundaryLimit.
C2_BoundaryContainment ==
    /\ Abs(truck.position.x) <= boundaryLimit
    /\ Abs(truck.position.z) <= boundaryLimit

\* C2 witness: a free update() has just clamped the vehicle onto the boundary
\* while it was still moving outward.
C2_Witness ==
    /\ lastOp = "update"
    /\ calls > 0
    /\ truck.position.z = boundaryLimit
    /\ truck.velocity.z > 0

\* C3: after every update() the vehicle is not below the ground:
\* position.y >= heightFn(position.x, position.z), whatever the bounce.
C3_NoTunneling ==
    lastOp = "update"
        => truck.position.y >= GetHeightAt(terrain, truck.position.x, truck.position.z)

\* C3 witness: an update() on uneven ground, away from height 0, with a
\* negative bounce offset.
C3_Witness ==
    /\ lastOp = "update"
    /\ calls > 0
    /\ truck.bounce < 0
    /\ GetHeightAt(terrain, truck.position.x, truck.position.z) # 0

\* C4: every position the vehicle reaches is inside the terrain's sampled
\* domain: |x| < groundSize/2, |z| < groundSize/2, and getHeightAt does not
\* answer a vehicle position with its out-of-domain value.
C4_InsideTerrain ==
    /\ Abs(truck.position.x) < groundSize \div 2
    /\ Abs(truck.position.z) < groundSize \div 2
    /\ ~OutOfDomain(truck.position.x, truck.position.z)

\* C5: a reset() that directly follows a reset() changes nothing of the
\* vehicle.
C5_ResetIdempotent ==
    [][(lastOp = "reset" /\ lastOp' = "reset") => truck' = truck]_vars

\* C5 witness: two reset() calls in a row after an opening drive.
C5_Witness ==
    /\ lastOp = "reset"
    /\ prevOp = "reset"
    /\ plan.frames > 0

\* C6: after reset() every mutable field has its default: position at the
\* spawn point at ride height, velocity, acceleration, rotation, angular
\* velocity, bounce and bounce velocity zero, controls and targets zero,
\* ground contact TRUE, nitro off, speed limit normal.
C6_ResetDefaults ==
    lastOp = "reset" =>
        /\ truck.position = Vec(0, suspensionHeight, 0)
        /\ truck.velocity = Vec(0, 0, 0)
        /\ truck.acceleration = Vec(0, 0, 0)
        /\ truck.rotation = 0
        /\ truck.angularVelocity = 0
        /\ truck.bounce = 0
        /\ truck.bounceVelocity = 0
        /\ truck.throttle = 0 /\ truck.brake = 0 /\ truck.steering = 0
        /\ truck.targetThrottle = 0 /\ truck.targetBrake = 0
        /\ truck.targetSteering = 0
        /\ truck.groundContact = Constructed.groundContact
        /\ ~truck.nitroActive
        /\ truck.maxSpeedKmh = normalMaxSpeedKmh

\* C7: two vehicles started in the same state and given the same calls with
\* the same arguments return the same PhysicsResult from every update(),
\* whatever their clocks read and whether or not the boundary sound fired.
C7_Determinism == result = twin.result

\* C7 witness: an update() at the boundary in which one vehicle called the
\* boundary sound and the other did not.
C7_Witness ==
    /\ lastOp = "update"
    /\ calls > 0
    /\ sound # twin.sound
    /\ truck.lastBoundaryCollisionTime # twin.truck.lastBoundaryCollisionTime

\* Forward component of the velocity, mm/s.
ForwardVelocity(t) == VDot(t.velocity, ForwardDir(t.rotation))

\* C8: with only the brake held from a positive forward speed on level
\* ground, after each update() the speed is no greater than at entry to that
\* update(), and the forward velocity component is not negative.
C8_BrakeMonotone ==
    (Braking /\ plan.dt > 0)
        => /\ VLen(truck.velocity) <= result.speed
           /\ ForwardVelocity(truck) >= 0

\* C9: at rest on level ground with left held alone, rotation and
\* angularVelocity stay 0.
C9_NoYawAtRest == truck.rotation = 0 /\ truck.angularVelocity = 0

\* C9 witness: the steering has built up and the vehicle has not turned.
C9_Witness ==
    /\ lastOp = "update"
    /\ truck.steering > 100
    /\ truck.targetSteering > 500
    /\ truck.rotation = 0

\* C10: heading along +x with forward held, the vehicle eventually reaches
\* position.x = boundaryLimit, and from then on every frame leaves it there.
C10_WallSaturation ==
    /\ <>(truck.position.x = boundaryLimit)
    /\ [][truck.position.x = boundaryLimit
            => truck'.position.x = boundaryLimit]_vars

\* C10 witness: a frame spent pressing against the boundary after the first
\* impact.
C10_Witness ==
    /\ lastOp = "update"
    /\ truck.position.x = boundaryLimit
    /\ result.position.x = boundaryLimit
    /\ result.speed > 0
    /\ ~sound

\* C11: from rest after reset() on level ground, with forward held and no
\* steering for 120 frames at 60 frames per second, the final forward speed
\* is above 0 and below the speed limit of 120 km/h.
C11_StraightAcceleration ==
    frames = MaxStraightFrames =>
        /\ ForwardVelocity(truck) > 0
        /\ ForwardVelocity(truck) * 36 < normalMaxSpeedKmh * 10000

\* C11 witness: the last of the frames has been played, the engine pulling
\* and the vehicle still on its heading.
C11_Witness ==
    /\ frames = MaxStraightFrames
    /\ lastOp = "update"
    /\ truck.throttle > 0
    /\ truck.rotation = 0
    /\ result.speed > 0

\* C12: once N has been pressed and the game has run a frame with the keys
\* it was handed, nitroActive is TRUE; once N has been released and a frame
\* has run, it is FALSE.
C12_NitroKey ==
    (lastOp = "update" /\ currentInputState /\ event.kind = "key"
       /\ event.code = "KeyN")
        => truck.nitroActive = event.isPressed

\* C13: with 0 degrees = right and 90 degrees = up, a joystick move above
\* the activation threshold sets forward when pushed up, backward when
\* pushed down, left when pushed left and right when pushed right.
C13_JoystickMapping ==
    (lastOp = "move" /\ AboveThreshold(event.force)) =>
        /\ event.angle = 90  => keys.forward
        /\ event.angle = 270 => keys.backward
        /\ event.angle = 180 => keys.left
        /\ event.angle = 0   => keys.right

\* C14: after any calls, maxSpeedKmh is normalMaxSpeedKmh * nitroMultiplier
\* when nitroActive and normalMaxSpeedKmh when not; and on return from
\* applyUserInput nitroActive is the input's nitro.
C14_NitroMode ==
    /\ truck.maxSpeedKmh =
           IF truck.nitroActive THEN normalMaxSpeedKmh * nitroMultiplier
           ELSE normalMaxSpeedKmh
    /\ lastOp = "input" => truck.nitroActive = event.input.nitro

\* C14 witness: an applyUserInput call has switched nitro off again and the
\* limit is back at normalMaxSpeedKmh.
C14_Witness ==
    /\ lastOp = "input"
    /\ event.before.nitroActive
    /\ event.before.maxSpeedKmh = normalMaxSpeedKmh * nitroMultiplier
    /\ ~event.input.nitro
    /\ ~truck.nitroActive
    /\ truck.maxSpeedKmh = normalMaxSpeedKmh

\* C15: from the second consecutive applyUserInput call with the brake held
\* on, targetBrake is no smaller than the call found it and has grown by
\* 0.8 * dt, up to 1.0.
C15_ProgressiveBrake ==
    (event.kind = "input" /\ event.held >= 2) =>
        /\ truck.targetBrake >= event.before.targetBrake
        /\ truck.targetBrake =
               Min(One, event.before.targetBrake + TDiv(8 * event.dt, 10))

\* C16: on return from an applyUserInput call whose input has brake,
\* targetThrottle is 0.
C16_BrakePriority ==
    (lastOp = "input" /\ event.input.brake) => truck.targetThrottle = 0

\* C16 witness: forward and brake held together on a vehicle whose throttle
\* target was positive.
C16_Witness ==
    /\ lastOp = "input"
    /\ event.input.brake
    /\ event.input.forward
    /\ event.before.targetThrottle > 0
    /\ truck.targetThrottle = 0

\* C17: after build(), every grid vertex has its height in its own
\* heightData entry, and getHeightAt at the vertex's world position returns
\* that height.
C17_CacheAgreesWithMesh ==
    (probe.kind = "vertex" /\ terrain \in Noises) =>
        /\ HeightData(terrain, probe.vx, probe.vz)
               = VertexHeight(terrain, probe.vx, probe.vz)
        /\ probe.height = VertexHeight(terrain, probe.vx, probe.vz)

\* C18: getHeightAt returns 0 and reads no index outside heightData when
\* the grid index on either axis is below 0 or past groundSegments - 1, and
\* when the terrain has not been built.
C18_OutOfDomainTotal ==
    (probe.kind = "point"
       /\ (\/ terrain = "unbuilt"
           \/ GridIndex(probe.x) < 0 \/ GridIndex(probe.x) > groundSegments - 1
           \/ GridIndex(probe.z) < 0 \/ GridIndex(probe.z) > groundSegments - 1))
        => /\ probe.height = 0
           /\ probe.reads \subseteq
                  0 .. ((groundSegments + 1) * (groundSegments + 1) - 1)

\* C18 witness: a query on built, sloping ground in the last row and column
\* of the grid, answered with 0; the same point one cell further in is not.
C18_Witness ==
    /\ probe.kind = "point"
    /\ terrain = "ramp"
    /\ GridIndex(probe.x) = groundSegments
    /\ GridIndex(probe.z) = groundSegments
    /\ probe.height = 0
    /\ GetHeightAt(terrain, probe.x - 20000, probe.z - 20000) # 0

\* C19: at a cell edge inside the domain the interpolation of the cell
\* below, taken at the edge, equals that of the cell above, and the values
\* 1 mm apart across the edge differ by no more than the thousandth of the
\* sample step that 1 mm of interpolation allows, plus rounding.
C19_Continuity ==
    probe.kind = "edge" =>
        /\ probe.fromBelow = probe.fromAbove
        /\ Abs(probe.above - probe.below) * One <= probe.step + 2 * One

\* C19 witness: an edge between cells whose samples differ by more than a
\* metre, on built ground.
C19_Witness ==
    /\ probe.kind = "edge"
    /\ probe.axis = "x"
    /\ terrain \in Noises
    /\ probe.step > 50
    /\ probe.fromBelow # 0

\* C20: every vertex within 30 m of the origin has height 0 after build(),
\* the flatten factor being 0 there.
C20_FlatSpawn ==
    (probe.kind = "vertex" /\ terrain \in Noises
       /\ (VertexCoord(probe.vx) \div 100) * (VertexCoord(probe.vx) \div 100)
            + (VertexCoord(probe.vz) \div 100) * (VertexCoord(probe.vz) \div 100)
          <= 300 * 300)
        => /\ VertexHeight(terrain, probe.vx, probe.vz) = 0
           /\ FlattenFactor(VertexCoord(probe.vx), VertexCoord(probe.vz)) = 0

\* C21: when update() lands the vehicle with an impact above 5 m/s, and the
\* roughness query answered differently for the two vehicles, their bounce
\* state differs.
C21_RoughnessDrivesBounce ==
    (event.kind = "frame" /\ plan.rough # terrain /\ plan.fork < 0
       /\ ~event.before.groundContact /\ truck.groundContact
       /\ event.before.velocity.y < -5000
       /\ GetRoughnessAt(terrain, truck.position.x, truck.position.z)
            # GetRoughnessAt(plan.rough, truck.position.x, truck.position.z))
        => \/ truck.bounceVelocity # twin.truck.bounceVelocity
           \/ truck.bounce # twin.truck.bounce

\* C22: two vehicles that differed only in bounce and bounceVelocity have the
\* same position.y and groundContact after every update().
C22_BounceIsOverlay ==
    (event.kind = "frame" /\ plan.fork >= 0 /\ frames > plan.fork) =>
        /\ truck.position.y = twin.truck.position.y
        /\ truck.groundContact = twin.truck.groundContact

\* C23: the stuck timer holds the time for which the vehicle has been stuck
\* on consecutive frames, and the vehicle is reset in the frame in which
\* that time passes 5 s, so the stuck condition never lasts a further frame.
C23_StuckAutoReset ==
    event.kind = "loop" =>
        /\ event.stalledFor > 0 => truck.stuckTime = event.stalledFor
        /\ event.stalledFor <= stuckThreshold + 100

\* C24: every update() issued by the game loop has 0 <= dt <= 0.1, and the
\* first animation frame records the time and runs no physics step.
C24_FrameTimeClamp ==
    /\ lastOp = "update" => (deltaTime >= 0 /\ deltaTime <= 100)
    /\ (event.kind = "raf" /\ frames = 1) =>
           (~event.stepped /\ lastOp = "new" /\ truck = Constructed)

\* C24 witness: a frame 5 s after the one before it was stepped with the
\* limit of 0.1 s.
C24_Witness ==
    /\ event.kind = "raf"
    /\ event.stepped
    /\ lastOp = "update"
    /\ frames = 2
    /\ now = 1000 + 5000
    /\ deltaTime = 100

\* x lies in the closed interval between a and b.
Between(a, x, b) == Min(a, b) <= x /\ x <= Max(a, b)

\* C25: after update() each of throttle, brake and steering lies between
\* its value before the step and its target; throttle and targetThrottle
\* stay in [-0.4, 1], brake and targetBrake in [0, 1], steering and
\* targetSteering in [-1, 1].
C25_SmoothingNoOvershoot ==
    /\ lastOp = "update" =>
          /\ Between(probe.before.throttle, truck.throttle, probe.before.targetThrottle)
          /\ Between(probe.before.brake, truck.brake, probe.before.targetBrake)
          /\ Between(probe.before.steering, truck.steering, probe.before.targetSteering)
    /\ truck.throttle >= -400 /\ truck.throttle <= One
    /\ truck.targetThrottle >= -400 /\ truck.targetThrottle <= One
    /\ truck.brake >= 0 /\ truck.brake <= One
    /\ truck.targetBrake >= 0 /\ truck.targetBrake <= One
    /\ truck.steering >= -One /\ truck.steering <= One
    /\ truck.targetSteering >= -One /\ truck.targetSteering <= One

\* C25 witness: an update() with dt = 0.7 s, for which every factor is
\* limited to 1, has brought the steering from 0 onto its target of 1.
C25_Witness ==
    /\ lastOp = "update"
    /\ deltaTime = 700
    /\ probe.before.steering = 0
    /\ probe.before.targetSteering = One
    /\ truck.steering = One

\* position.y as update(dt) integrates it from t0, before line 290 looks at it.
IntegratedY(t0, dt, clock) ==
    Move(Integrate(t0, dt).truck, dt, clock).truck.position.y

\* targetHeight of line 287 in the same update().
RideHeight(t0, dt, ter, clock) ==
    TargetHeight(TerrainSample(ter, Move(Integrate(t0, dt).truck, dt, clock).truck.position,
                               t0.position),
                 Move(Integrate(t0, dt).truck, dt, clock).truck.bounce)

\* C26: after update() groundContact is true exactly when the integrated
\* position.y is at or below terrainHeight + suspensionHeight + bounce
\* offset; a vehicle exactly at that height is grounded.
C26_GroundDecision ==
    lastOp = "update" =>
        (truck.groundContact <=>
            IntegratedY(probe.before, deltaTime, now)
                <= RideHeight(probe.before, deltaTime, terrain, now))

\* The lateral friction acceleration of an update(dt) that finds t.
LateralStep(t, dt) ==
    LateralFrictionAccel(t, dt, Kinematics(t).speed,
                         Kinematics(t).lateralVelocityVector,
                         Kinematics(t).lateralSpeed)

\* a acting for dt points against v and does not take more than v away.
Opposes(a, v, dt) == a * v <= 0 /\ Abs(a) * dt <= Abs(v) * One

\* C27: in every update() with dt > 0 the lateral friction acceleration
\* times dt does not exceed the lateral velocity at step entry, component
\* by component, and points opposite to it.
C27_LateralFrictionCap ==
    (lastOp = "update" /\ deltaTime > 0) =>
        /\ Opposes(LateralStep(probe.before, deltaTime).x,
                   Kinematics(probe.before).lateralVelocityVector.x, deltaTime)
        /\ Opposes(LateralStep(probe.before, deltaTime).y,
                   Kinematics(probe.before).lateralVelocityVector.y, deltaTime)
        /\ Opposes(LateralStep(probe.before, deltaTime).z,
                   Kinematics(probe.before).lateralVelocityVector.z, deltaTime)

\* C27 witness: an update() found the vehicle grounded and sliding sideways,
\* and its lateral friction was a nonzero acceleration.
C27_Witness ==
    /\ lastOp = "update"
    /\ deltaTime > 0
    /\ probe.before.groundContact
    /\ Kinematics(probe.before).lateralSpeed > 10
    /\ LateralStep(probe.before, deltaTime) # Vec(0, 0, 0)

\* C28: between two successive calls of triggerBoundaryCollisionSound more
\* than boundaryCollisionCooldown (500 ms) of wall-clock time passes.
C28_SoundCooldown ==
    probe.previous # -1 => probe.last - probe.previous > boundaryCollisionCooldown

\* C28 witness: the vehicle presses against the boundary on frames 100 ms
\* apart, and a frame that called the sound has followed an earlier call.
C28_Witness ==
    /\ plan.tick = 100
    /\ lastOp = "update"
    /\ sound
    /\ truck.position.x = boundaryLimit
    /\ probe.previous # -1
    /\ probe.last = now

\* C29: from the constructed or reset state on level ground with no input,
\* after every update() with 0 < dt <= 0.1 groundContact is true, position
\* is the spawn point at ride height and velocity is zero.
C29_RestingStaysGrounded ==
    lastOp = "update" =>
        /\ truck.groundContact
        /\ truck.position = Vec(0, suspensionHeight, 0)
        /\ truck.velocity = Vec(0, 0, 0)

\* C29 witness: the fourth call or later is an update() of 16 ms that
\* follows another update() and leaves the vehicle grounded at ride height.
C29_Witness ==
    /\ lastOp = "update"
    /\ prevOp = "update"
    /\ frames >= 4
    /\ deltaTime = 16
    /\ truck.groundContact
    /\ truck.position.y = suspensionHeight

\* The direction keys that are held.
DirectionsHeld(k) ==
    {d \in {"forward", "backward", "left", "right"} : k[d]}

\* C30: after a joystick 'move' at most one of forward, backward, left and
\* right is true, and none when the normalized force is at or below 0.3 or
\* the angle is 45, 135, 225 or 315 degrees; after a joystick 'end' all four
\* are false and brake is what it was.
C30_JoystickExclusive ==
    /\ lastOp = "move" =>
          /\ Cardinality(DirectionsHeld(keys)) <= 1
          /\ (event.force <= 1500 \/ event.angle \in {45, 135, 225, 315})
                => DirectionsHeld(keys) = {}
    /\ lastOp = "end" =>
          /\ DirectionsHeld(keys) = {}
          /\ keys.brake = event.brake

\* C30 witness: with the brake key held, a joystick move at 30 degrees and
\* half force has set forward alone.
C30_Witness ==
    /\ lastOp = "move"
    /\ event.angle = 30
    /\ event.force = 2500
    /\ DirectionsHeld(keys) = {"forward"}
    /\ keys.brake

====
